---- MODULE Spec2Model ----
(***************************************************************************)
(* Model of the fundamental-analysis engine of fundamental_analyst_agent:  *)
(* FundamentalAnalyzer (src/src/financial_analyser.py) over a statement    *)
(* store of three tables, with its five public operations, and of the      *)
(* demo workflow around it (src/run_demo.py, src/src/data_collector.py,    *)
(* src/src/llm_agents.py).                                                 *)
(*                                                                         *)
(* Numbers.  The tables hold numpy scalars and the rates are Python        *)
(* floats.  A number is modelled as a pair <<n, d>>: a reduced fraction    *)
(* n/d with d > 0, or one of the three IEEE-754 specials <<1, 0>> (+inf),  *)
(* <<-1, 0>> (-inf) and <<0, 0>> (NaN).  Rounding error and the sign of    *)
(* zero are not modelled: arithmetic on finite values is exact.            *)
(***************************************************************************)
EXTENDS Integers, Sequences, FiniteSets, TLC

\* ticker, income_stmt, balance_sheet, cashflow: the analyzer's fields, set by
\* __init__ and load_data (financial_analyser.py lines 30-59).
\* call: the latest method call on the analyzer and what it gave its caller.
\* files: the CSV files of the data directory (data/raw), by file name.
\* The demo process of run_demo.py:
\* argv: sys.argv; pc: its position in main; analysis, memo: the locals of
\* main; response: what the OpenAI API call of generate_memo gave; outputs:
\* the files of the outputs directory; displayed: the memo printed at the
\* end; trace: the steps that have run, in order; escaped: the exception that
\* left main and the step it left from; exit_code: the status of the exited
\* process.
VARIABLES ticker, income_stmt, balance_sheet, cashflow, call, files,
          argv, pc, analysis, memo, response, outputs, displayed, trace,
          escaped, exit_code

vars == <<ticker, income_stmt, balance_sheet, cashflow, call, files,
          argv, pc, analysis, memo, response, outputs, displayed, trace,
          escaped, exit_code>>

store == <<ticker, income_stmt, balance_sheet, cashflow>>

demo == <<argv, pc, analysis, memo, response, outputs, displayed, trace,
          escaped, exit_code>>

-----------------------------------------------------------------------------
(* Floating-point arithmetic of the host language, without rounding.       *)

Abs(x) == IF x < 0 THEN -x ELSE x

Sign(x) == IF x < 0 THEN -1 ELSE IF x > 0 THEN 1 ELSE 0

RECURSIVE Gcd(_, _)
Gcd(a, b) == IF b = 0 THEN a ELSE Gcd(b, a % b)

NaN == <<0, 0>>

Inf(s) == <<s, 0>>

IsNaN(x) == x = NaN

IsInf(x) == x[2] = 0 /\ x[1] # 0

IsFinite(x) == x[2] > 0

\* the reduced fraction n/d, for d # 0
Frac(n, d) ==
    LET g == Gcd(Abs(n), Abs(d))
    IN  <<Sign(d) * (n \div g), Abs(d) \div g>>

Num(k) == <<k, 1>>

\* x * y
FMul(x, y) ==
    IF IsNaN(x) \/ IsNaN(y) THEN NaN
    ELSE IF IsInf(x) \/ IsInf(y)
    THEN IF x[1] = 0 \/ y[1] = 0 THEN NaN ELSE Inf(Sign(x[1]) * Sign(y[1]))
    ELSE LET g1 == Gcd(Abs(x[1]), y[2])
             g2 == Gcd(Abs(y[1]), x[2])
         IN  <<(x[1] \div g1) * (y[1] \div g2), (x[2] \div g2) * (y[2] \div g1)>>

\* x / y: a zero divisor gives an infinity or NaN, never an exception
FDiv(x, y) ==
    IF IsNaN(x) \/ IsNaN(y) THEN NaN
    ELSE IF IsInf(y) THEN (IF IsInf(x) THEN NaN ELSE Num(0))
    ELSE IF y[1] = 0
    THEN IF x[1] = 0 THEN NaN ELSE Inf(Sign(x[1]))
    ELSE IF IsInf(x) THEN Inf(Sign(x[1]) * Sign(y[1]))
    ELSE FMul(x, <<Sign(y[1]) * y[2], Abs(y[1])>>)

\* x + y
FAdd(x, y) ==
    IF IsNaN(x) \/ IsNaN(y) THEN NaN
    ELSE IF IsInf(x) THEN (IF IsInf(y) /\ y[1] # x[1] THEN NaN ELSE x)
    ELSE IF IsInf(y) THEN y
    ELSE LET g == Gcd(x[2], y[2])
             l == (x[2] \div g) * y[2]
         IN  Frac(x[1] * (l \div x[2]) + y[1] * (l \div y[2]), l)

FNeg(x) == <<-x[1], x[2]>>

\* x - y
FSub(x, y) == FAdd(x, FNeg(y))

\* abs(x)
FAbs(x) == <<Abs(x[1]), x[2]>>

\* x ** k for a finite x and an integer k >= 0 (x ** 0 is 1.0, also for
\* x = 0); a power of a reduced fraction is reduced
FPow(x, k) ==
    IF k = 0 THEN Num(1)
    ELSE IF x[1] = 0 THEN Num(0)
    ELSE <<(IF x[1] < 0 /\ k % 2 = 1 THEN -1 ELSE 1) * (Abs(x[1]) ^ k), x[2] ^ k>>

\* x < y on finite values
FLess(x, y) == x[1] * y[2] < y[1] * x[2]

\* sum(xs): Python's sum starts from 0 and adds left to right
RECURSIVE SumTo(_, _)
SumTo(xs, k) == IF k = 0 THEN Num(0) ELSE FAdd(SumTo(xs, k - 1), xs[k])

FSum(xs) == SumTo(xs, Len(xs))

-----------------------------------------------------------------------------
(* The statement store: three tables read from CSV by load_data.  A table  *)
(* has its period labels in column order (columns[1] is Python's           *)
(* columns[0], the latest period), its row labels (index) and its figures; *)
(* read_csv keeps row and column labels as it finds them and does not      *)
(* require the three tables to share their periods.                        *)

Periods == {"2024", "2023"}

IncomeItems == {"Total Revenue", "Net Income"}

BalanceItems == {"Total Assets", "Stockholders Equity", "Total Debt"}

CashflowItems == {"Operating Cash Flow", "Capital Expenditure", "Free Cash Flow"}

\* Two sets of figures a data feed may supply.  Set 1 is an ordinary
\* company; set 2 has zero and negative figures, which the store passes
\* through unvalidated.  Cash-flow figures are kept small so that the exact
\* fractions of the default five-year valuation fit TLC's 32-bit integers.
Variants == {1, 2}

Figures1 ==
    [ i \in IncomeItems \cup BalanceItems \cup CashflowItems |->
        CASE i = "Total Revenue"        -> [p \in Periods |-> IF p = "2024" THEN 100 ELSE 80]
          [] i = "Net Income"           -> [p \in Periods |-> IF p = "2024" THEN 20 ELSE 10]
          [] i = "Total Assets"         -> [p \in Periods |-> IF p = "2024" THEN 200 ELSE 160]
          [] i = "Stockholders Equity"  -> [p \in Periods |-> IF p = "2024" THEN 100 ELSE 80]
          [] i = "Total Debt"           -> [p \in Periods |-> IF p = "2024" THEN 50 ELSE 40]
          [] i = "Operating Cash Flow"  -> [p \in Periods |-> IF p = "2024" THEN 15 ELSE 10]
          [] i = "Capital Expenditure"  -> [p \in Periods |-> IF p = "2024" THEN -3 ELSE -2]
          [] i = "Free Cash Flow"       -> [p \in Periods |-> IF p = "2024" THEN 11 ELSE 9] ]

Figures2 ==
    [ i \in IncomeItems \cup BalanceItems \cup CashflowItems |->
        CASE i = "Total Revenue"        -> [p \in Periods |-> IF p = "2024" THEN 0 ELSE 50]
          [] i = "Net Income"           -> [p \in Periods |-> IF p = "2024" THEN -20 ELSE 0]
          [] i = "Total Assets"         -> [p \in Periods |-> IF p = "2024" THEN 0 ELSE 200]
          [] i = "Stockholders Equity"  -> [p \in Periods |-> IF p = "2024" THEN 0 ELSE -50]
          [] i = "Total Debt"           -> [p \in Periods |-> IF p = "2024" THEN 0 ELSE 60]
          [] i = "Operating Cash Flow"  -> [p \in Periods |-> IF p = "2024" THEN 0 ELSE -10]
          [] i = "Capital Expenditure"  -> [p \in Periods |-> IF p = "2024" THEN 3 ELSE 0]
          [] i = "Free Cash Flow"       -> [p \in Periods |-> IF p = "2024" THEN -3 ELSE 0] ]

Figure(v, item, period) == IF v = 1 THEN Figures1[item][period] ELSE Figures2[item][period]

\* the column orders a table may have: no column, or distinct period labels
ColumnOrders ==
    { cs \in UNION { [1..n -> Periods] : n \in 0..Cardinality(Periods) } :
        \A i, j \in DOMAIN cs : i # j => cs[i] # cs[j] }

\* the tables pd.read_csv(..., index_col=0) may produce over a set of rows
Tables(items, v) ==
    { [columns |-> cs, index |-> rows, figures |-> v] :
        cs \in ColumnOrders, rows \in SUBSET items }

\* a CSV file of the data directory: its header line (the empty cell above
\* the row labels, then the period labels), the labels its rows start with
\* and its figures
CsvHeader(labels) == <<"">> \o labels

\* pd.read_csv(file, index_col=0): the first cell of each line becomes the
\* row label, the rest of the header the column labels
ReadCsv(csv) ==
    [columns |-> Tail(csv.header), index |-> csv.rows, figures |-> csv.figures]

\* the CSV file that read_csv reads as `table`
CsvReadAs(table) ==
    [header |-> CsvHeader(table.columns), rows |-> table.index, figures |-> table.figures]

\* self.data_dir / f"{ticker}_{statement}.csv"
FileName(t, statement) == <<t, "_", statement, ".csv">>

\* the data directory from which load_data reads the three tables
DataDir(t, inc, bal, cf) ==
    (FileName(t, "income_statement") :> CsvReadAs(inc))
    @@ (FileName(t, "balance_sheet") :> CsvReadAs(bal))
    @@ (FileName(t, "cashflow") :> CsvReadAs(cf))

\* load_data: the three tables as read from the data directory
LoadData(t, dir) ==
    [income_stmt   |-> ReadCsv(dir[FileName(t, "income_statement")]),
     balance_sheet |-> ReadCsv(dir[FileName(t, "balance_sheet")]),
     cashflow      |-> ReadCsv(dir[FileName(t, "cashflow")])]

\* a lookup that checks the row label only and not the period label
HasCellByRowOnly(table, row, period) == row \in table.index

\* whether table.loc[row, period] finds a cell; when it does not, pandas
\* raises KeyError
HasCell(table, row, period) ==
    /\ row \in table.index
    /\ \E i \in DOMAIN table.columns : table.columns[i] = period

\* table.loc[row, period], for a cell that exists
Loc(table, row, period) == Num(Figure(table.figures, row, period))

\* the key the KeyError of a failed table.loc[row, period] carries
MissingKey(table, row, period) == IF row \notin table.index THEN row ELSE period

-----------------------------------------------------------------------------
(* What a call gives its caller: the value it returns or the exception it  *)
(* lets escape, and the lines it prints on the way.                        *)

Returned(value, printed) ==
    [status |-> "returned", exc |-> "none", value |-> value, printed |-> printed]

Raised(e, printed) ==
    [status |-> "raised", exc |-> e, value |-> <<>>, printed |-> printed]

\* the empty mapping {}
EmptyMapping == <<>>

NoCall == [op |-> "none", args |-> <<>>, status |-> "none", exc |-> "none",
           value |-> <<>>, printed |-> <<>>]

Called(op, args, outcome) ==
    [op |-> op, args |-> args, status |-> outcome.status, exc |-> outcome.exc,
     value |-> outcome.value, printed |-> outcome.printed]

\* one printed line: its fixed text, the key it names and the rows it lists
Line(text, key, rows) == [text |-> text, key |-> key, rows |-> rows]

-----------------------------------------------------------------------------
(* calculate_profitability_ratios                                          *)

\* _try_alternative_names: prints the rows of both tables, returns {}
TryAlternativeNames(inc, bal) ==
    Returned(EmptyMapping,
             << Line("Available Income Statement rows:", "", inc.index),
                Line("Available Balance Sheet rows:", "", bal.index) >>)

\* the .loc lookups of calculate_profitability_ratios, in program order:
\* all four use the income statement's first column label
ProfitabilityLookups(inc, bal) ==
    << <<inc, "Total Revenue">>, <<inc, "Net Income">>,
       <<bal, "Total Assets">>, <<bal, "Stockholders Equity">> >>

\* the first lookup of a sequence that raises KeyError at `period`, 0 if none
FirstMissing(lookups, period) ==
    LET bad == { k \in DOMAIN lookups : ~HasCell(lookups[k][1], lookups[k][2], period) }
    IN  IF bad = {} THEN 0 ELSE CHOOSE k \in bad : \A j \in bad : k <= j

CalculateProfitabilityRatios(inc, bal) ==
    IF Len(inc.columns) = 0
    THEN Raised("IndexError", <<>>)
    ELSE LET latest  == inc.columns[1]
             lookups == ProfitabilityLookups(inc, bal)
             miss    == FirstMissing(lookups, latest)
         IN  IF miss # 0
             THEN LET alt == TryAlternativeNames(inc, bal)
                  IN  Returned(alt.value,
                               << Line("Warning: Could not find ... Check row names in CSV.",
                                       MissingKey(lookups[miss][1], lookups[miss][2], latest),
                                       {}) >> \o alt.printed)
             ELSE LET revenue             == Loc(inc, "Total Revenue", latest)
                      net_income          == Loc(inc, "Net Income", latest)
                      total_assets        == Loc(bal, "Total Assets", latest)
                      shareholders_equity == Loc(bal, "Stockholders Equity", latest)
                  IN  Returned(
                        ("Net Profit Margin (%)" :> FMul(FDiv(net_income, revenue), Num(100)))
                        @@ ("ROA (Return on Assets %)" :> FMul(FDiv(net_income, total_assets), Num(100)))
                        @@ ("ROE (Return on Equity %)" :> FMul(FDiv(net_income, shareholders_equity), Num(100))),
                        <<>>)

-----------------------------------------------------------------------------
(* calculate_leverage_ratios                                               *)

LeverageLookups(bal) ==
    << <<bal, "Total Debt">>, <<bal, "Stockholders Equity">>, <<bal, "Total Assets">> >>

CalculateLeverageRatios(bal) ==
    IF Len(bal.columns) = 0
    THEN Raised("IndexError", <<>>)
    ELSE LET latest  == bal.columns[1]
             lookups == LeverageLookups(bal)
             miss    == FirstMissing(lookups, latest)
         IN  IF miss # 0
             THEN Returned(EmptyMapping,
                           << Line("Warning: Could not find",
                                   MissingKey(lookups[miss][1], lookups[miss][2], latest), {}) >>)
             ELSE LET total_debt   == Loc(bal, "Total Debt", latest)
                      total_equity == Loc(bal, "Stockholders Equity", latest)
                      total_assets == Loc(bal, "Total Assets", latest)
                  IN  Returned(
                        ("Debt-to-Equity" :> FDiv(total_debt, total_equity))
                        @@ ("Debt-to-Assets" :> FDiv(total_debt, total_assets))
                        @@ ("Equity Multiplier" :> FDiv(total_assets, total_equity)),
                        <<>>)

-----------------------------------------------------------------------------
(* calculate_growth_metrics                                                *)

InsufficientData == "Insufficient data for growth calculation"

\* a guard that lets a single period through
InsufficientHistoryOffByOne(inc) == Len(inc.columns) < 1

\* len(self.income_stmt.columns) < 2
InsufficientHistory(inc) == Len(inc.columns) < 2

\* the change taken relative to the current period instead of the prior one
GrowthPercentOverCurrent(current, prior) ==
    FMul(FDiv(FSub(current, prior), current), Num(100))

\* ((current - previous) / previous) * 100
GrowthPercent(current, prior) == FMul(FDiv(FSub(current, prior), prior), Num(100))

CalculateGrowthMetrics(inc) ==
    IF InsufficientHistory(inc)
    THEN Returned("Note" :> InsufficientData, <<>>)
    ELSE IF Len(inc.columns) < 2
    THEN Raised("IndexError", <<>>)   \* columns[0] or columns[1] out of range
    ELSE LET current_year  == inc.columns[1]
             previous_year == inc.columns[2]
         IN  IF \/ ~HasCell(inc, "Total Revenue", current_year)
                \/ ~HasCell(inc, "Total Revenue", previous_year)
                \/ ~HasCell(inc, "Net Income", current_year)
                \/ ~HasCell(inc, "Net Income", previous_year)
             THEN Returned(EmptyMapping, <<>>)
             ELSE LET current_revenue  == Loc(inc, "Total Revenue", current_year)
                      previous_revenue == Loc(inc, "Total Revenue", previous_year)
                      current_ni       == Loc(inc, "Net Income", current_year)
                      previous_ni      == Loc(inc, "Net Income", previous_year)
                  IN  Returned(
                        ("Revenue Growth YoY (%)" :>
                            GrowthPercent(current_revenue, previous_revenue))
                        @@ ("Net Income Growth YoY (%)" :>
                            GrowthPercent(current_ni, previous_ni)),
                        <<>>)

-----------------------------------------------------------------------------
(* simple_dcf_valuation(growth_rate=0.05, discount_rate=0.10, years=5)     *)

DefaultGrowthRate == <<1, 20>>

DefaultDiscountRate == <<1, 10>>

DefaultYears == 5

\* the base-year free cash flow: the 'Free Cash Flow' row if the table has
\* one, else Operating Cash Flow less |Capital Expenditure| (0 without that
\* row), else none
BaseFcf(cf, latest) ==
    IF "Free Cash Flow" \in cf.index
    THEN [found |-> TRUE, fcf |-> Loc(cf, "Free Cash Flow", latest)]
    ELSE IF "Operating Cash Flow" \in cf.index
    THEN LET ocf   == Loc(cf, "Operating Cash Flow", latest)
             capex == IF "Capital Expenditure" \in cf.index
                      THEN FAbs(Loc(cf, "Capital Expenditure", latest))
                      ELSE Num(0)
         IN  [found |-> TRUE, fcf |-> FSub(ocf, capex)]
    ELSE [found |-> FALSE, fcf |-> NaN]

\* fcf * ((1 + growth_rate) ** year)
FutureFcf(fcf, growth_rate, year) == FMul(fcf, FPow(FAdd(Num(1), growth_rate), year))

\* future_fcf / ((1 + discount_rate) ** year)
PresentValue(future_fcf, discount_rate, year) ==
    FDiv(future_fcf, FPow(FAdd(Num(1), discount_rate), year))

\* the list projected_fcf after the loop over range(1, years + 1)
ProjectedFcf(fcf, growth_rate, discount_rate, years) ==
    [ year \in 1..years |->
        PresentValue(FutureFcf(fcf, growth_rate, year), discount_rate, year) ]

\* the terminal cash flow taken at the last projected year, not one beyond
TerminalFcfAtHorizon(fcf, growth_rate, years) ==
    FMul(fcf, FPow(FAdd(Num(1), growth_rate), years))

\* fcf * ((1 + growth_rate) ** years) * (1 + growth_rate)
TerminalFcf(fcf, growth_rate, years) ==
    FMul(FMul(fcf, FPow(FAdd(Num(1), growth_rate), years)), FAdd(Num(1), growth_rate))

\* the perpetuity spread with its operands exchanged
TerminalValueSwappedSpread(terminal_fcf, growth_rate, discount_rate) ==
    FDiv(terminal_fcf, FSub(growth_rate, discount_rate))

\* terminal_fcf / (discount_rate - growth_rate)
TerminalValue(terminal_fcf, growth_rate, discount_rate) ==
    FDiv(terminal_fcf, FSub(discount_rate, growth_rate))

\* terminal_value / ((1 + discount_rate) ** years)
PvTerminal(terminal_value, discount_rate, years) ==
    FDiv(terminal_value, FPow(FAdd(Num(1), discount_rate), years))

\* f"{rate*100}%": the number printed, followed by the percent sign
PercentText(rate) == [number |-> FMul(rate, Num(100)), suffix |-> "%"]

\* columns[0] is inside the try, but IndexError is not KeyError and escapes.
\* Every .loc below reads a row just found in the index at the table's own
\* first label, so the except KeyError handler (lines 285-289) is not entered.
SimpleDcfValuation(cf, growth_rate, discount_rate, years) ==
    IF Len(cf.columns) = 0
    THEN Raised("IndexError", <<>>)
    ELSE LET latest == cf.columns[1]
             base   == BaseFcf(cf, latest)
         IN  IF ~base.found
             THEN Returned(EmptyMapping, << Line("Cannot find cash flow data", "", {}) >>)
             ELSE LET fcf            == base.fcf
                      projected_fcf  == ProjectedFcf(fcf, growth_rate, discount_rate, years)
                      terminal_fcf   == TerminalFcf(fcf, growth_rate, years)
                      terminal_value == TerminalValue(terminal_fcf, growth_rate, discount_rate)
                      pv_terminal    == PvTerminal(terminal_value, discount_rate, years)
                      enterprise_value == FAdd(FSum(projected_fcf), pv_terminal)
                  IN  Returned(
                        ("Enterprise Value" :> enterprise_value)
                        @@ ("Current FCF" :> fcf)
                        @@ ("Projected FCF (PV)" :> FSum(projected_fcf))
                        @@ ("Terminal Value (PV)" :> pv_terminal)
                        @@ ("Assumptions" :>
                              (("Growth Rate" :> PercentText(growth_rate))
                               @@ ("Discount Rate" :> PercentText(discount_rate))
                               @@ ("Years" :> years))),
                        <<>>)

-----------------------------------------------------------------------------
(* generate_analysis_summary: the four calculators in program order; an    *)
(* exception one of them lets escape ends the call there.                  *)

GenerateAnalysisSummary(t, inc, bal, cf) ==
    LET profitability == CalculateProfitabilityRatios(inc, bal)
        leverage      == CalculateLeverageRatios(bal)
        growth        == CalculateGrowthMetrics(inc)
        valuation     == SimpleDcfValuation(cf, DefaultGrowthRate, DefaultDiscountRate,
                                            DefaultYears)
    IN  IF profitability.status = "raised"
        THEN Raised(profitability.exc, profitability.printed)
        ELSE IF leverage.status = "raised"
        THEN Raised(leverage.exc, profitability.printed \o leverage.printed)
        ELSE IF growth.status = "raised"
        THEN Raised(growth.exc, profitability.printed \o leverage.printed \o growth.printed)
        ELSE IF valuation.status = "raised"
        THEN Raised(valuation.exc,
                    profitability.printed \o leverage.printed \o growth.printed
                        \o valuation.printed)
        ELSE Returned(
               ("Ticker" :> t)
               @@ ("Profitability Ratios" :> profitability.value)
               @@ ("Leverage Ratios" :> leverage.value)
               @@ ("Growth Metrics" :> growth.value)
               @@ ("DCF Valuation" :> valuation.value),
               profitability.printed \o leverage.printed \o growth.printed
                   \o valuation.printed)

-----------------------------------------------------------------------------
(* The analyzer as a state machine: the store after construction, and one  *)
(* action per public operation called on it.                               *)

Tickers == {"AAPL"}

\* a table with both periods and every row of its statement
FullTable(items, v) == [columns |-> <<"2024", "2023">>, index |-> items, figures |-> v]

\* a Python value that is a str (its text in pieces, as an f-string joins
\* them), None, or a local not yet bound
Str(pieces) == [type |-> "str", text |-> pieces]

None == [type |-> "NoneType", text |-> <<>>]

Unbound == [type |-> "unbound", text |-> <<>>]

NoAnalysis == <<>>

NoResponse == [status |-> "none", exc |-> "none", content |-> Unbound, message |-> ""]

NoException == [exc |-> "none", step |-> "none"]

\* the demo process when the analyzer is used as a library: not started
DemoNotStarted ==
    /\ argv = <<>>
    /\ pc = "not started"
    /\ analysis = NoAnalysis
    /\ memo = Unbound
    /\ response = NoResponse
    /\ outputs = <<>>
    /\ displayed = Unbound
    /\ trace = <<>>
    /\ escaped = NoException
    /\ exit_code = 0

\* the store is what load_data read from the data directory
Loaded ==
    /\ files = DataDir(ticker, income_stmt, balance_sheet, cashflow)
    /\ LoadData(ticker, files) =
         [income_stmt |-> income_stmt, balance_sheet |-> balance_sheet,
          cashflow |-> cashflow]

ProfitabilityCall ==
    /\ call' = Called("calculate_profitability_ratios", <<>>,
                      CalculateProfitabilityRatios(income_stmt, balance_sheet))
    /\ UNCHANGED <<store, files, demo>>

LeverageCall ==
    /\ call' = Called("calculate_leverage_ratios", <<>>,
                      CalculateLeverageRatios(balance_sheet))
    /\ UNCHANGED <<store, files, demo>>

\* a growth calculator that drops the period it has just compared
GrowthCallConsumingLatest ==
    /\ call' = Called("calculate_growth_metrics", <<>>,
                      CalculateGrowthMetrics(income_stmt))
    /\ income_stmt' = [income_stmt EXCEPT !.columns =
                          IF Len(@) >= 2 THEN Tail(@) ELSE @]
    /\ UNCHANGED <<ticker, balance_sheet, cashflow, files, demo>>

GrowthCall ==
    /\ call' = Called("calculate_growth_metrics", <<>>,
                      CalculateGrowthMetrics(income_stmt))
    /\ UNCHANGED <<store, files, demo>>

DcfCall(growth_rate, discount_rate, years) ==
    /\ call' = Called("simple_dcf_valuation", <<growth_rate, discount_rate, years>>,
                      SimpleDcfValuation(cashflow, growth_rate, discount_rate, years))
    /\ UNCHANGED <<store, files, demo>>

DefaultDcfCall == DcfCall(DefaultGrowthRate, DefaultDiscountRate, DefaultYears)

SummaryCall ==
    /\ call' = Called("generate_analysis_summary", <<>>,
                      GenerateAnalysisSummary(ticker, income_stmt, balance_sheet, cashflow))
    /\ UNCHANGED <<store, files, demo>>

(* Spec: the whole analyzer over every shape of store (which rows and      *)
(* which period columns each table has), with the figures of set 1.        *)
Init ==
    /\ ticker \in Tickers
    /\ income_stmt \in Tables(IncomeItems, 1)
    /\ balance_sheet \in Tables(BalanceItems, 1)
    /\ cashflow \in Tables(CashflowItems, 1)
    /\ call = NoCall
    /\ Loaded
    /\ DemoNotStarted

Next ==
    \/ ProfitabilityCall
    \/ LeverageCall
    \/ GrowthCall
    \/ DefaultDcfCall
    \/ SummaryCall

Spec == Init /\ [][Next]_vars

(* SpecRatios: the ratio and growth calculators over every shape of income *)
(* statement and balance sheet and both sets of figures.                   *)
InitRatios ==
    /\ ticker \in Tickers
    /\ \E v \in Variants :
         /\ income_stmt \in Tables(IncomeItems, v)
         /\ balance_sheet \in Tables(BalanceItems, v)
         /\ cashflow = FullTable(CashflowItems, v)
    /\ call = NoCall
    /\ Loaded
    /\ DemoNotStarted

NextRatios ==
    \/ ProfitabilityCall
    \/ LeverageCall
    \/ GrowthCall

SpecRatios == InitRatios /\ [][NextRatios]_vars

(* SpecDCF: simple_dcf_valuation with caller-chosen rates and horizon over *)
(* every shape of cash-flow table and both sets of figures.                *)
MaxYears == 2

Horizons == 0..MaxYears

GrowthRates == { <<-1, 2>>, <<0, 1>>, <<1, 2>> }

DiscountRates == { <<0, 1>>, <<1, 2>>, <<1, 1>> }

InitDCF ==
    /\ ticker \in Tickers
    /\ \E v \in Variants :
         /\ income_stmt = FullTable(IncomeItems, v)
         /\ balance_sheet = FullTable(BalanceItems, v)
         /\ cashflow \in Tables(CashflowItems, v)
    /\ call = NoCall
    /\ Loaded
    /\ DemoNotStarted

ParametricDcfCall ==
    \E g \in GrowthRates, d \in DiscountRates, n \in Horizons : DcfCall(g, d, n)

NextDCF == ParametricDcfCall

SpecDCF == InitDCF /\ [][NextDCF]_vars

-----------------------------------------------------------------------------
(* data_collector.py: the statements as the feed supplies them, written to *)
(* the data directory by to_csv.                                           *)

\* the period ends that label the columns of the feed's frames (Timestamps)
PeriodEnds == {2024, 2023}

\* to_csv writes a Timestamp column label as text
PeriodText(t) == IF t = 2024 THEN "2024" ELSE "2023"

\* the frames the feed may supply for a statement: an empty frame (what it
\* gives for a symbol it has no statements for), or every row of the
\* statement over one or two periods
FeedFrames(items) ==
    { [columns |-> <<>>, index |-> {}, figures |-> 1],
      [columns |-> <<2024>>, index |-> items, figures |-> 1],
      [columns |-> <<2024, 2023>>, index |-> items, figures |-> 1] }

\* frame.to_csv(file)
ToCsv(frame) ==
    [header  |-> CsvHeader([i \in DOMAIN frame.columns |-> PeriodText(frame.columns[i])]),
     rows    |-> frame.index,
     figures |-> frame.figures]

\* the files collect_all_data writes for the analyzer, in program order (the
\* company info and the price history, which the analyzer does not read,
\* are left out)
CollectedFiles(t, inc, bal, cf) ==
    << <<FileName(t, "income_statement"), ToCsv(inc)>>,
       <<FileName(t, "balance_sheet"), ToCsv(bal)>>,
       <<FileName(t, "cashflow"), ToCsv(cf)>> >>

\* a directory after the first k of a sequence of <<name, content>> writes
WriteFirst(dir, writes, k) ==
    LET names == { writes[i][1] : i \in 1..k }
    IN  [ name \in DOMAIN dir \cup names |->
            IF name \in names
            THEN LET last == CHOOSE i \in 1..k :
                               /\ writes[i][1] = name
                               /\ \A j \in 1..k : writes[j][1] = name => j <= i
                 IN  writes[last][2]
            ELSE dir[name] ]

-----------------------------------------------------------------------------
(* llm_agents.py: InvestmentMemoGenerator.generate_memo and save_memo.     *)

\* the classes an exception raised by the API call is an instance of
Bases(exc) ==
    CASE exc = "AuthenticationError" -> {"AuthenticationError", "APIError", "Exception"}
      [] exc = "RateLimitError"      -> {"RateLimitError", "APIError", "Exception"}
      [] exc = "APIConnectionError"  -> {"APIConnectionError", "APIError", "Exception"}
      [] exc = "AttributeError"      -> {"AttributeError", "Exception"}
      [] exc = "KeyboardInterrupt"   -> {"KeyboardInterrupt"}

\* what openai.chat.completions.create may give: a completion whose content
\* is text or None, or an exception with its message
Responses ==
    { [status |-> "ok", exc |-> "none", content |-> Str(<<"Investment memo">>), message |-> ""],
      [status |-> "ok", exc |-> "none", content |-> None, message |-> ""] }
    \cup { [status |-> "raised", exc |-> e, content |-> Unbound, message |-> "reason"] :
             e \in { "AuthenticationError", "RateLimitError", "APIConnectionError",
                     "AttributeError", "KeyboardInterrupt" } }

\* except clauses that stop at the API's own errors
HandlersWithoutCatchAll == <<"AuthenticationError", "RateLimitError", "APIError">>

\* the except clauses of generate_memo, in program order
Handlers == <<"AuthenticationError", "RateLimitError", "APIError", "Exception">>

\* the first except clause that matches the exception, 0 if none does
MatchingHandler(exc) ==
    LET hits == { k \in DOMAIN Handlers : Handlers[k] \in Bases(exc) }
    IN  IF hits = {} THEN 0 ELSE CHOOSE k \in hits : \A j \in hits : k <= j

\* the string the matching except clause returns
ErrorText(handler, message) ==
    CASE handler = "AuthenticationError" ->
           Str(<<"ERROR: Invalid OpenAI API key. Check your .env file.">>)
      [] handler = "RateLimitError" ->
           Str(<<"ERROR: OpenAI rate limit exceeded. Wait a moment and try again.">>)
      [] handler = "APIError" -> Str(<<"ERROR: OpenAI API error: ", message>>)
      [] handler = "Exception" -> Str(<<"ERROR: ", message>>)

\* generate_memo, given what the API call gives: _create_prompt formats
\* every analysis the analyzer returns without raising
GenerateMemo(resp) ==
    IF resp.status = "ok"
    THEN Returned(resp.content, <<>>)
    ELSE LET k == MatchingHandler(resp.exc)
         IN  IF k = 0
             THEN Raised(resp.exc, <<>>)
             ELSE Returned(ErrorText(Handlers[k], resp.message), <<>>)

-----------------------------------------------------------------------------
(* run_demo.py: the entry point and main(ticker).                          *)

\* str.upper() of the arguments a user may type
Upper(s) == CASE s = "msft" -> "MSFT" [] s = "aapl" -> "AAPL" [] OTHER -> s

DefaultTicker == "AAPL"

\* the command lines: the program name, then at most one ticker
CommandLines == { <<"run_demo.py">>, <<"run_demo.py", "msft">> }

\* lines 151-154: the ticker main is called with
DemoTicker(args) == IF Len(args) > 1 THEN Upper(args[2]) ELSE DefaultTicker

\* an exit status that ignores which exception left main
ExitStatusAlwaysFailure(exc) == 1

\* lines 156-165: the exit status for an exception that left main
ExitStatusFor(exc) == IF exc = "KeyboardInterrupt" THEN 0 ELSE 1

\* the exception leaves main at `step` and the process exits
Escapes(exc, step) ==
    /\ pc' = "exited"
    /\ escaped' = [exc |-> exc, step |-> step]
    /\ exit_code' = ExitStatusFor(exc)

\* a pipeline that saves the outputs before the memo is generated
AfterStepSavingFirst(step) ==
    CASE step = "collect" -> "analyze"
      [] step = "analyze" -> "save"
      [] step = "save"    -> "memo"
      [] step = "memo"    -> "display"
      [] step = "display" -> "done"

\* the step of main that follows `step`
AfterStep(step) ==
    CASE step = "collect" -> "analyze"
      [] step = "analyze" -> "memo"
      [] step = "memo"    -> "save"
      [] step = "save"    -> "display"
      [] step = "display" -> "done"

RunningSteps == {"collect", "analyze", "memo", "save", "display"}

\* the calculators generate_analysis_summary runs, in program order, up to
\* and without the first that raises, and the aggregation if none does
SummarySteps(inc, bal, cf) ==
    LET outcomes == << CalculateProfitabilityRatios(inc, bal),
                       CalculateLeverageRatios(bal),
                       CalculateGrowthMetrics(inc),
                       SimpleDcfValuation(cf, DefaultGrowthRate, DefaultDiscountRate,
                                          DefaultYears) >>
        names    == <<"profitability", "leverage", "growth", "valuation">>
        raising  == { k \in 1..4 : outcomes[k].status = "raised" }
        ran      == IF raising = {} THEN 4
                    ELSE (CHOOSE k \in raising : \A j \in raising : k <= j) - 1
    IN  SubSeq(names, 1, ran) \o (IF raising = {} THEN <<"aggregate">> ELSE <<>>)

\* the files of step 4, in program order: json.dump(analysis) and save_memo
OutputFiles(t, summary, text) ==
    << << <<t, "_analysis.json">>, [json |-> summary] >>,
       << <<t, "_investment_memo.md">>, text >> >>

\* lines 39-41: the collector fetches the three statements and writes them
CollectData ==
    /\ pc = "collect"
    /\ \E inc \in FeedFrames(IncomeItems), bal \in FeedFrames(BalanceItems),
          cf \in FeedFrames(CashflowItems) :
         files' = WriteFirst(files, CollectedFiles(DemoTicker(argv), inc, bal, cf), 3)
    /\ trace' = Append(trace, "collect")
    /\ pc' = AfterStep("collect")
    /\ UNCHANGED <<store, call, argv, analysis, memo, response, outputs, displayed,
                   escaped, exit_code>>

\* the feed or the disk fails while the collector runs, some files written
CollectFails ==
    /\ pc = "collect"
    /\ \E inc \in FeedFrames(IncomeItems), bal \in FeedFrames(BalanceItems),
          cf \in FeedFrames(CashflowItems), k \in 0..2 :
         files' = WriteFirst(files, CollectedFiles(DemoTicker(argv), inc, bal, cf), k)
    /\ Escapes("ConnectionError", "collect")
    /\ UNCHANGED <<store, call, argv, analysis, memo, response, outputs, displayed,
                   trace>>

\* lines 58-87: the analyzer is constructed (load_data), the summary is
\* generated and printed; an exception of a calculator leaves main
Analyze ==
    /\ pc = "analyze"
    /\ LET t       == DemoTicker(argv)
           loaded  == LoadData(t, files)
           summary == GenerateAnalysisSummary(t, loaded.income_stmt,
                                              loaded.balance_sheet, loaded.cashflow)
       IN  /\ ticker' = t
           /\ income_stmt' = loaded.income_stmt
           /\ balance_sheet' = loaded.balance_sheet
           /\ cashflow' = loaded.cashflow
           /\ call' = Called("generate_analysis_summary", <<>>, summary)
           /\ trace' = trace \o <<"load">>
                          \o SummarySteps(loaded.income_stmt, loaded.balance_sheet,
                                          loaded.cashflow)
           /\ IF summary.status = "raised"
              THEN /\ Escapes(summary.exc, "analyze")
                   /\ UNCHANGED analysis
              ELSE /\ analysis' = summary.value
                   /\ pc' = AfterStep("analyze")
                   /\ UNCHANGED <<escaped, exit_code>>
    /\ UNCHANGED <<files, argv, memo, response, outputs, displayed>>

\* lines 96-97: generate_memo calls the API; an exception it does not
\* catch leaves main
GenerateMemoStep ==
    /\ pc = "memo"
    /\ \E resp \in Responses :
         LET outcome == GenerateMemo(resp)
         IN  /\ response' = resp
             /\ IF outcome.status = "raised"
                THEN /\ Escapes(outcome.exc, "memo")
                     /\ UNCHANGED <<memo, trace>>
                ELSE /\ memo' = outcome.value
                     /\ trace' = Append(trace, "memo")
                     /\ pc' = AfterStep("memo")
                     /\ UNCHANGED <<escaped, exit_code>>
    /\ UNCHANGED <<store, call, files, argv, analysis, outputs, displayed>>

\* lines 106-117: the analysis and the memo are written; f.write(memo)
\* raises TypeError for a memo that is None, after open() created the file
SaveOutputs ==
    /\ pc = "save"
    /\ LET t == DemoTicker(argv)
       IN  IF memo.type = "str"
           THEN /\ outputs' = WriteFirst(outputs, OutputFiles(t, analysis, memo), 2)
                /\ trace' = trace \o <<"save analysis", "save memo">>
                /\ pc' = AfterStep("save")
                /\ UNCHANGED <<escaped, exit_code>>
           ELSE /\ outputs' = WriteFirst(outputs, OutputFiles(t, analysis, Str(<<>>)), 2)
                /\ trace' = Append(trace, "save analysis")
                /\ Escapes("TypeError", "save")
    /\ UNCHANGED <<store, call, files, argv, analysis, memo, response, displayed>>

\* the disk fails while the outputs are written, the analysis written or not
SaveFails ==
    /\ pc = "save"
    /\ \E k \in 0..1 :
         /\ outputs' = WriteFirst(outputs, OutputFiles(DemoTicker(argv), analysis, memo), k)
         /\ trace' = trace \o SubSeq(<<"save analysis">>, 1, k)
    /\ Escapes("OSError", "save")
    /\ UNCHANGED <<store, call, files, argv, analysis, memo, response, displayed>>

\* lines 122-137: the memo is printed, main returns and the process ends
DisplayMemo ==
    /\ pc = "display"
    /\ displayed' = memo
    /\ trace' = Append(trace, "display")
    /\ pc' = AfterStep("display")
    /\ exit_code' = 0
    /\ UNCHANGED <<store, call, files, argv, analysis, memo, response, outputs, escaped>>

\* the user interrupts the process (Ctrl-C) while a step of main runs
Interrupt ==
    /\ pc \in RunningSteps
    /\ Escapes("KeyboardInterrupt", pc)
    /\ UNCHANGED <<store, call, files, argv, analysis, memo, response, outputs,
                   displayed, trace>>

\* the table fields of an analyzer that is not yet constructed
NotLoaded == [columns |-> <<>>, index |-> {}, figures |-> 0]

(* SpecDemo: one run of run_demo.py from the command line.                 *)
InitDemo ==
    /\ argv \in CommandLines
    /\ pc = "collect"
    /\ ticker = ""
    /\ income_stmt = NotLoaded
    /\ balance_sheet = NotLoaded
    /\ cashflow = NotLoaded
    /\ call = NoCall
    /\ files = <<>>
    /\ analysis = NoAnalysis
    /\ memo = Unbound
    /\ response = NoResponse
    /\ outputs = <<>>
    /\ displayed = Unbound
    /\ trace = <<>>
    /\ escaped = NoException
    /\ exit_code = 0

\* the steps main takes by itself
MainStep ==
    \/ CollectData
    \/ Analyze
    \/ GenerateMemoStep
    \/ SaveOutputs
    \/ DisplayMemo

\* what the feed, the disk and the user may do to a step
Fault ==
    \/ CollectFails
    \/ SaveFails
    \/ Interrupt

NextDemo == MainStep \/ Fault

SpecDemo == InitDemo /\ [][NextDemo]_vars

\* once generate_memo has returned, main keeps running: the interpreter
\* executes the saving and the display unless a fault ends the process first
SpecDemoFair == SpecDemo /\ WF_vars(SaveOutputs) /\ WF_vars(DisplayMemo)

-----------------------------------------------------------------------------
(* Properties of the ratio and growth calculators (SpecRatios).            *)

\* the row is in the table and the table has a latest period
PresentAtLatest(table, row) == row \in table.index /\ Len(table.columns) >= 1

\* the figure of a row at the table's own position 0
AtLatest(table, row) == Loc(table, row, table.columns[1])

\* 100 * x / y
PercentOf(x, y) == FDiv(FMul(Num(100), x), y)

ProfitabilityItemsPresent ==
    /\ PresentAtLatest(income_stmt, "Total Revenue")
    /\ PresentAtLatest(income_stmt, "Net Income")
    /\ PresentAtLatest(balance_sheet, "Total Assets")
    /\ PresentAtLatest(balance_sheet, "Stockholders Equity")

\* C1: calculate_profitability_ratios is all-or-nothing: whenever one of
\* Total Revenue, Net Income, Total Assets, Stockholders Equity is missing
\* it returns the empty mapping, and in every case it returns a mapping of
\* 0 or exactly 3 entries.
C1_ProfitabilityAllOrNothing ==
    call.op = "calculate_profitability_ratios" =>
        /\ call.status = "returned"
        /\ Cardinality(DOMAIN call.value) \in {0, 3}
        /\ ~ProfitabilityItemsPresent => call.value = EmptyMapping

\* C2: with the four profitability items present and revenue # 0, the
\* result is Net Profit Margin = 100 * NI / Revenue, ROA = 100 * NI / Total
\* Assets, ROE = 100 * NI / Equity, each figure taken at position 0 of its
\* own table.
C2_ProfitabilityFormulas ==
    ( /\ call.op = "calculate_profitability_ratios"
      /\ ProfitabilityItemsPresent
      /\ AtLatest(income_stmt, "Total Revenue") # Num(0) )
    => /\ call.status = "returned"
       /\ DOMAIN call.value = { "Net Profit Margin (%)", "ROA (Return on Assets %)",
                                "ROE (Return on Equity %)" }
       /\ call.value["Net Profit Margin (%)"] =
            PercentOf(AtLatest(income_stmt, "Net Income"),
                      AtLatest(income_stmt, "Total Revenue"))
       /\ call.value["ROA (Return on Assets %)"] =
            PercentOf(AtLatest(income_stmt, "Net Income"),
                      AtLatest(balance_sheet, "Total Assets"))
       /\ call.value["ROE (Return on Equity %)"] =
            PercentOf(AtLatest(income_stmt, "Net Income"),
                      AtLatest(balance_sheet, "Stockholders Equity"))

\* C7: with fewer than two periods in the income statement (one column or
\* none), calculate_growth_metrics does not raise and returns exactly
\* {'Note': 'Insufficient data for growth calculation'}, whatever rows the
\* table has.
C7_GrowthInsufficientHistory ==
    (call.op = "calculate_growth_metrics" /\ Len(income_stmt.columns) < 2)
    => /\ call.status = "returned"
       /\ call.value = ("Note" :> InsufficientData)

\* C7 happens: growth was asked of an income statement that has both rows
\* but a single period, and the call returned.
C7_Witness ==
    /\ call.op = "calculate_growth_metrics"
    /\ Len(income_stmt.columns) = 1
    /\ income_stmt.index = IncomeItems
    /\ call.status = "returned"

\* C8: with at least two periods, calculate_growth_metrics returns
\* 100 * (rev[0] - rev[1]) / rev[1] and 100 * (ni[0] - ni[1]) / ni[1]
\* (position 0 the latest period, position 1 the prior one); if Total
\* Revenue or Net Income is missing it returns the empty mapping.
C8_GrowthFormulas ==
    (call.op = "calculate_growth_metrics" /\ Len(income_stmt.columns) >= 2)
    => /\ call.status = "returned"
       /\ IF IncomeItems \subseteq income_stmt.index
          THEN LET cur == income_stmt.columns[1]
                   pre == income_stmt.columns[2]
                   rev == [p \in {cur, pre} |-> Loc(income_stmt, "Total Revenue", p)]
                   ni  == [p \in {cur, pre} |-> Loc(income_stmt, "Net Income", p)]
               IN  /\ DOMAIN call.value =
                        {"Revenue Growth YoY (%)", "Net Income Growth YoY (%)"}
                   /\ call.value["Revenue Growth YoY (%)"] =
                        PercentOf(FSub(rev[cur], rev[pre]), rev[pre])
                   /\ call.value["Net Income Growth YoY (%)"] =
                        PercentOf(FSub(ni[cur], ni[pre]), ni[pre])
          ELSE call.value = EmptyMapping

\* C8 happens: Revenue 100 against 80 and Net Income 20 against 10 give
\* 25 and 100.
C8_Witness ==
    /\ call.op = "calculate_growth_metrics"
    /\ income_stmt = FullTable(IncomeItems, 1)
    /\ call.value["Revenue Growth YoY (%)"] = Num(25)
    /\ call.value["Net Income Growth YoY (%)"] = Num(100)

LeverageItemsPresent ==
    /\ PresentAtLatest(balance_sheet, "Total Debt")
    /\ PresentAtLatest(balance_sheet, "Stockholders Equity")
    /\ PresentAtLatest(balance_sheet, "Total Assets")

\* C9: calculate_leverage_ratios returns Debt-to-Equity = Debt / Equity,
\* Debt-to-Assets = Debt / Assets and Equity Multiplier = Assets / Equity
\* when the three items are present at the balance sheet's latest period,
\* and the empty mapping when any of them is missing.
C9_LeverageAllOrNothing ==
    call.op = "calculate_leverage_ratios" =>
        /\ call.status = "returned"
        /\ IF LeverageItemsPresent
           THEN /\ DOMAIN call.value =
                     {"Debt-to-Equity", "Debt-to-Assets", "Equity Multiplier"}
                /\ call.value["Debt-to-Equity"] =
                     FDiv(AtLatest(balance_sheet, "Total Debt"),
                          AtLatest(balance_sheet, "Stockholders Equity"))
                /\ call.value["Debt-to-Assets"] =
                     FDiv(AtLatest(balance_sheet, "Total Debt"),
                          AtLatest(balance_sheet, "Total Assets"))
                /\ call.value["Equity Multiplier"] =
                     FDiv(AtLatest(balance_sheet, "Total Assets"),
                          AtLatest(balance_sheet, "Stockholders Equity"))
           ELSE call.value = EmptyMapping

\* a line item a table lacks although the table has the periods the group
\* reads (`needed` of them)
LacksItem(table, items, needed) ==
    Len(table.columns) >= needed /\ ~(items \subseteq table.index)

\* the headings under which the analyzer lists the rows of a table
RowListings == {"Available Income Statement rows:", "Available Balance Sheet rows:"}

\* the latest call printed a listing of the rows of `table`
DumpedRows(table) ==
    \E k \in DOMAIN call.printed :
        call.printed[k].text \in RowListings /\ call.printed[k].rows = table.index

\* C12: whenever a ratio group (profitability, leverage or growth) finds a
\* required line item missing, it does not raise, returns the empty mapping
\* and prints a listing of the available row names.
C12_MissingItemRecoveredWithDump ==
    /\ ( /\ call.op = "calculate_profitability_ratios"
         /\ Len(income_stmt.columns) >= 1
         /\ \/ ~(IncomeItems \subseteq income_stmt.index)
            \/ ~({"Total Assets", "Stockholders Equity"} \subseteq balance_sheet.index) )
       => /\ call.status = "returned"
          /\ call.value = EmptyMapping
          /\ DumpedRows(income_stmt) /\ DumpedRows(balance_sheet)
    /\ (call.op = "calculate_leverage_ratios" /\ LacksItem(balance_sheet, BalanceItems, 1))
       => /\ call.status = "returned"
          /\ call.value = EmptyMapping
          /\ DumpedRows(balance_sheet)
    /\ (call.op = "calculate_growth_metrics" /\ LacksItem(income_stmt, IncomeItems, 2))
       => /\ call.status = "returned"
          /\ call.value = EmptyMapping
          /\ DumpedRows(income_stmt)

\* the balance sheet has a column labelled as the income statement's latest
BalanceHasIncomeLabel ==
    \E i \in DOMAIN balance_sheet.columns : balance_sheet.columns[i] = income_stmt.columns[1]

ProfitabilityRowsPresent ==
    /\ IncomeItems \subseteq income_stmt.index
    /\ {"Total Assets", "Stockholders Equity"} \subseteq balance_sheet.index

\* C16: calculate_profitability_ratios reads Total Assets and Stockholders
\* Equity from the balance-sheet column labelled as the income statement's
\* first column, wherever that column stands in the balance sheet; when the
\* balance sheet has no such column the result is the empty mapping although
\* all four line items are present in their tables.
C16_BalanceSheetByIncomeLabel ==
    ( /\ call.op = "calculate_profitability_ratios"
      /\ Len(income_stmt.columns) >= 1
      /\ ProfitabilityRowsPresent )
    => /\ call.status = "returned"
       /\ IF BalanceHasIncomeLabel
          THEN LET label == income_stmt.columns[1]
                   ni    == Loc(income_stmt, "Net Income", label)
               IN  /\ DOMAIN call.value =
                        { "Net Profit Margin (%)", "ROA (Return on Assets %)",
                          "ROE (Return on Equity %)" }
                   /\ call.value["ROA (Return on Assets %)"] =
                        PercentOf(ni, Loc(balance_sheet, "Total Assets", label))
                   /\ call.value["ROE (Return on Equity %)"] =
                        PercentOf(ni, Loc(balance_sheet, "Stockholders Equity", label))
          ELSE call.value = EmptyMapping

\* C16 happens: every line item is present, the income statement's latest
\* period is 2024, the balance sheet holds 2023 only, and the result is the
\* empty mapping.
C16_Witness ==
    /\ call.op = "calculate_profitability_ratios"
    /\ ProfitabilityRowsPresent
    /\ Len(income_stmt.columns) >= 1
    /\ income_stmt.columns[1] = "2024"
    /\ balance_sheet.columns = <<"2023">>
    /\ call.status = "returned"
    /\ call.value = EmptyMapping

-----------------------------------------------------------------------------
(* Properties of simple_dcf_valuation (SpecDCF).                           *)

IsDcfCall == call.op = "simple_dcf_valuation"

\* the call returned a valuation record (not the empty mapping)
IsValuation(c) == c.status = "returned" /\ "Enterprise Value" \in DOMAIN c.value

growth_rate_of(c) == c.args[1]

discount_rate_of(c) == c.args[2]

years_of(c) == c.args[3]

\* C3: the base-year free cash flow is the latest 'Free Cash Flow' figure
\* if that row exists; otherwise Operating Cash Flow - |Capital Expenditure|
\* (Capital Expenditure 0 when absent) if 'Operating Cash Flow' exists;
\* otherwise the result is the empty mapping with a diagnostic that lists
\* the available cash-flow rows.
C3_BaseFcfPreference ==
    IsDcfCall =>
        /\ call.status = "returned"
        /\ IF "Free Cash Flow" \in cashflow.index
           THEN /\ IsValuation(call)
                /\ call.value["Current FCF"] = AtLatest(cashflow, "Free Cash Flow")
           ELSE IF "Operating Cash Flow" \in cashflow.index
           THEN /\ IsValuation(call)
                /\ call.value["Current FCF"] =
                     FSub(AtLatest(cashflow, "Operating Cash Flow"),
                          IF "Capital Expenditure" \in cashflow.index
                          THEN FAbs(AtLatest(cashflow, "Capital Expenditure"))
                          ELSE Num(0))
           ELSE /\ call.value = EmptyMapping
                /\ \E k \in DOMAIN call.printed : call.printed[k].rows = cashflow.index

\* F * ((1+g)/(1+d))^y, the present value of year y's projected cash flow
RefPresentValue(F, g, d, y) == FMul(F, FPow(FDiv(FAdd(Num(1), g), FAdd(Num(1), d)), y))

\* sum over y = 1..N of F*(1+g)^y / (1+d)^y
RECURSIVE RefProjected(_, _, _, _)
RefProjected(F, g, d, N) ==
    IF N = 0 THEN Num(0)
    ELSE FAdd(RefProjected(F, g, d, N - 1), RefPresentValue(F, g, d, N))

\* (F*(1+g)^(N+1) / (d - g)) / (1+d)^N
RefTerminal(F, g, d, N) ==
    FDiv(FDiv(FMul(F, FPow(FAdd(Num(1), g), N + 1)), FSub(d, g)),
         FPow(FAdd(Num(1), d), N))

\* C4: for base FCF F, growth g, discount d # g and horizon N >= 0 the
\* record holds 'Current FCF' = F, 'Projected FCF (PV)' = sum over y = 1..N
\* of F*(1+g)^y/(1+d)^y, 'Terminal Value (PV)' = (F*(1+g)^(N+1)/(d-g))/(1+d)^N
\* and 'Enterprise Value' = their sum.
C4_DcfFormulas ==
    (IsDcfCall /\ IsValuation(call) /\ discount_rate_of(call) # growth_rate_of(call))
    => LET F == BaseFcf(cashflow, cashflow.columns[1]).fcf
           g == growth_rate_of(call)
           d == discount_rate_of(call)
           N == years_of(call)
       IN  /\ call.value["Current FCF"] = F
           /\ call.value["Projected FCF (PV)"] = RefProjected(F, g, d, N)
           /\ call.value["Terminal Value (PV)"] = RefTerminal(F, g, d, N)
           /\ call.value["Enterprise Value"] =
                FAdd(RefProjected(F, g, d, N), RefTerminal(F, g, d, N))

\* C4 happens: a valuation over the full horizon with d # g and a non-zero
\* base FCF derived from Operating Cash Flow 15 and Capital Expenditure -3.
C4_Witness ==
    /\ IsDcfCall /\ IsValuation(call)
    /\ discount_rate_of(call) # growth_rate_of(call)
    /\ years_of(call) = MaxYears
    /\ call.value["Current FCF"] = Num(12)

\* the cash-flow tables simple_dcf_valuation values
ValuedTables ==
    { cf \in UNION { Tables(CashflowItems, v) : v \in Variants } :
        Len(cf.columns) >= 1 /\ BaseFcf(cf, cf.columns[1]).found }

EnterpriseValue(cf, g, d, N) == SimpleDcfValuation(cf, g, d, N).value["Enterprise Value"]

CurrentFcf(c) == c.value["Current FCF"]

\* the enterprise value is strictly increasing in the base FCF at the rates
\* and horizon of the latest call
IncreasingInFcf ==
    \A cf \in ValuedTables :
        FLess(CurrentFcf(call), BaseFcf(cf, cf.columns[1]).fcf)
        => FLess(call.value["Enterprise Value"],
                 EnterpriseValue(cf, growth_rate_of(call), discount_rate_of(call),
                                 years_of(call)))

\* the enterprise values of the latest call's table at a higher discount rate
HigherDiscount == { d \in DiscountRates : FLess(discount_rate_of(call), d) }

ValidDcfCall ==
    IsDcfCall /\ IsValuation(call) /\ FLess(growth_rate_of(call), discount_rate_of(call))

\* C5 as stated: for d > g the enterprise value is strictly increasing in
\* base FCF and strictly decreasing in the discount rate, for every base FCF
\* (zero and negative ones included).
C5_MonotoneForEveryFcf ==
    ValidDcfCall =>
        /\ IncreasingInFcf
        /\ \A d \in HigherDiscount :
             FLess(EnterpriseValue(cashflow, growth_rate_of(call), d, years_of(call)),
                   call.value["Enterprise Value"])

\* C5 amended: for d > g the enterprise value is strictly increasing in base
\* FCF; in the discount rate it is strictly decreasing when the base FCF is
\* positive, strictly increasing when it is negative, and 0 throughout when
\* it is zero.
C5_MonotoneBySignOfFcf ==
    ValidDcfCall =>
        /\ IncreasingInFcf
        /\ \A d \in HigherDiscount :
             LET higher == EnterpriseValue(cashflow, growth_rate_of(call), d, years_of(call))
                 here   == call.value["Enterprise Value"]
             IN  /\ FLess(Num(0), CurrentFcf(call)) => FLess(higher, here)
                 /\ FLess(CurrentFcf(call), Num(0)) => FLess(here, higher)
                 /\ CurrentFcf(call) = Num(0) => (here = Num(0) /\ higher = Num(0))

\* C5 happens: a valuation with d > g and a positive base FCF, for which a
\* higher discount rate and a table with a larger base FCF exist.
C5_Witness ==
    /\ ValidDcfCall
    /\ years_of(call) >= 1
    /\ CurrentFcf(call) = Num(11)
    /\ HigherDiscount # {}
    /\ \E cf \in ValuedTables : FLess(CurrentFcf(call), BaseFcf(cf, cf.columns[1]).fcf)

\* C6: called with discount_rate = growth_rate, simple_dcf_valuation does
\* not return a normal valuation record whose Enterprise Value is an
\* infinity or NaN.
C6_DegenerateSpreadSignalled ==
    (IsDcfCall /\ discount_rate_of(call) = growth_rate_of(call))
    => ~(IsValuation(call) /\ ~IsFinite(call.value["Enterprise Value"]))

-----------------------------------------------------------------------------
(* Properties of the analyzer as a whole (Spec).                           *)

\* what the operation of the latest call gives on the tables `fresh`
OnStore(op, fresh) ==
    CASE op = "calculate_profitability_ratios" ->
           CalculateProfitabilityRatios(fresh.income_stmt, fresh.balance_sheet)
      [] op = "calculate_leverage_ratios" ->
           CalculateLeverageRatios(fresh.balance_sheet)
      [] op = "calculate_growth_metrics" ->
           CalculateGrowthMetrics(fresh.income_stmt)
      [] op = "simple_dcf_valuation" ->
           SimpleDcfValuation(fresh.cashflow, DefaultGrowthRate, DefaultDiscountRate,
                              DefaultYears)
      [] op = "generate_analysis_summary" ->
           GenerateAnalysisSummary(ticker, fresh.income_stmt, fresh.balance_sheet,
                                   fresh.cashflow)

\* what a call gave its caller: a returned value or an escaped exception
Gave(c) == <<c.status, c.exc, c.value>>

\* C13: after any sequence of calls to the four calculators and to
\* generate_analysis_summary, the three tables are still what load_data read
\* from the data directory, and the latest call gave exactly what its
\* operation gives on the freshly loaded tables.
C13_TablesReadOnlyResultsIdempotent ==
    LET fresh == LoadData(ticker, files)
    IN  /\ income_stmt = fresh.income_stmt
        /\ balance_sheet = fresh.balance_sheet
        /\ cashflow = fresh.cashflow
        /\ call.op # "none" => Gave(call) = Gave(OnStore(call.op, fresh))

\* C13 happens: growth figures were returned from a two-period income
\* statement, whose periods are all still there.
C13_Witness ==
    /\ call.op = "calculate_growth_metrics"
    /\ "Revenue Growth YoY (%)" \in DOMAIN call.value
    /\ Len(income_stmt.columns) = 2
    /\ income_stmt = LoadData(ticker, files).income_stmt

\* C10 below is a property of generate_analysis_summary.

\* C10: for every store generate_analysis_summary returns a summary with
\* exactly the keys Ticker, Profitability Ratios, Leverage Ratios, Growth
\* Metrics and DCF Valuation, each section equal to what its calculator
\* returns when called alone; a failure in one does not block the others.
C10_SummarySectionsIndependent ==
    call.op = "generate_analysis_summary" =>
        /\ call.status = "returned"
        /\ DOMAIN call.value = { "Ticker", "Profitability Ratios", "Leverage Ratios",
                                 "Growth Metrics", "DCF Valuation" }
        /\ call.value["Ticker"] = ticker
        /\ call.value["Profitability Ratios"] =
             CalculateProfitabilityRatios(income_stmt, balance_sheet).value
        /\ call.value["Leverage Ratios"] = CalculateLeverageRatios(balance_sheet).value
        /\ call.value["Growth Metrics"] = CalculateGrowthMetrics(income_stmt).value
        /\ call.value["DCF Valuation"] =
             SimpleDcfValuation(cashflow, DefaultGrowthRate, DefaultDiscountRate,
                                DefaultYears).value

-----------------------------------------------------------------------------
(* Properties of the demo workflow (SpecDemo, SpecDemoFair).               *)

\* the API call of generate_memo failed with an exception (of a class
\* derived from Exception: an authentication, rate-limit or other API error,
\* or any other one)
CollaboratorFailed == response.status = "raised" /\ "Exception" \in Bases(response.exc)

\* how the error strings of generate_memo begin
ErrorOpenings ==
    { "ERROR: Invalid OpenAI API key. Check your .env file.",
      "ERROR: OpenAI rate limit exceeded. Wait a moment and try again.",
      "ERROR: OpenAI API error: ", "ERROR: " }

MemoFile == <<DemoTicker(argv), "_investment_memo.md">>

AnalysisFile == <<DemoTicker(argv), "_analysis.json">>

\* after a failed API call: the exception did not leave generate_memo, the
\* memo is an error string, and it is what gets saved and displayed
FailureSurfacedAsMemo ==
    CollaboratorFailed =>
        /\ ~(escaped.step = "memo" /\ escaped.exc = response.exc)
        /\ memo.type = "str" /\ Len(memo.text) >= 1 /\ memo.text[1] \in ErrorOpenings
        /\ pc \in {"display", "done"} =>
             (MemoFile \in DOMAIN outputs /\ outputs[MemoFile] = memo)
        /\ pc = "done" => displayed = memo

\* the run completed, or was ended while saving or displaying by the user
\* or the disk
CompletedUnlessFault ==
    \/ pc = "done"
    \/ /\ pc = "exited"
       /\ escaped.step \in {"save", "display"}
       /\ escaped.exc \in {"KeyboardInterrupt", "OSError"}

\* C11: every failure of the API call in generate_memo (authentication, rate
\* limit, API error, any other exception) is returned by generate_memo as an
\* error string and never raised to main; the workflow then goes on to save
\* the outputs and to completion, the error text written to the memo file
\* and displayed in place of the memo (unless the user or the disk ends the
\* run while it saves or displays).
C11_CollaboratorFailureBecomesMemo ==
    /\ []FailureSurfacedAsMemo
    /\ (CollaboratorFailed ~> CompletedUnlessFault)

\* C11 happens: the API call hit the rate limit and the run completed with
\* the error string saved as the memo and displayed.
C11_Witness ==
    /\ pc = "done"
    /\ response.exc = "RateLimitError"
    /\ memo = Str(<<"ERROR: OpenAI rate limit exceeded. Wait a moment and try again.">>)
    /\ outputs[MemoFile] = memo
    /\ AnalysisFile \in DOMAIN outputs
    /\ displayed = memo
    /\ exit_code = 0

\* C14: without an argument the run is for ticker 'AAPL'; the process exits
\* with status 0 when KeyboardInterrupt leaves main, at whichever step, and
\* with a non-zero status when any other exception leaves main.
C14_EntryPointExitStatus ==
    /\ Len(argv) = 1 =>
         /\ \A name \in DOMAIN files \cup DOMAIN outputs : name[1] = "AAPL"
         /\ ticker \in {"", "AAPL"}
         /\ "load" \in { trace[i] : i \in DOMAIN trace } => ticker = "AAPL"
    /\ pc = "exited" =>
         /\ escaped.exc # "none"
         /\ escaped.exc = "KeyboardInterrupt" => exit_code = 0
         /\ escaped.exc # "KeyboardInterrupt" => exit_code # 0

\* C14 happens: started without an argument, the run was interrupted while
\* the memo was being generated, after the analysis of AAPL, and exited 0.
C14_Witness ==
    /\ Len(argv) = 1
    /\ pc = "exited"
    /\ escaped = [exc |-> "KeyboardInterrupt", step |-> "memo"]
    /\ ticker = "AAPL"
    /\ exit_code = 0

\* the steps of a complete run, in order
Pipeline ==
    << "collect", "load", "profitability", "leverage", "growth", "valuation",
       "aggregate", "memo", "save analysis", "save memo", "display" >>

IsPrefix(xs, ys) == Len(xs) <= Len(ys) /\ \A i \in DOMAIN xs : xs[i] = ys[i]

Ran(step) == \E i \in DOMAIN trace : trace[i] = step

\* the step of main a traced step belongs to, as its rank in main
RankOfStep(step) ==
    CASE step = "collect" -> 1
      [] step \in {"analyze", "load", "profitability", "leverage", "growth",
                   "valuation", "aggregate"} -> 2
      [] step = "memo" -> 3
      [] step \in {"save", "save analysis", "save memo"} -> 4
      [] step = "display" -> 5

\* C15: the steps of every run are an initial part of: collect, load,
\* profitability, leverage, growth, valuation, aggregate, memo, save
\* analysis, save memo, display; a completed run has them all; the analysis
\* exists only once aggregated, the memo only once generated, an output
\* file only after the memo was generated; and once an exception has left
\* main at some step no later step has run (in particular nothing is saved
\* when collecting, analysing or memo generation fails).
C15_StrictLinearPipeline ==
    /\ IsPrefix(trace, Pipeline)
    /\ pc = "done" => trace = Pipeline
    /\ Ran("load") <=> ticker # ""
    /\ Ran("aggregate") <=> analysis # NoAnalysis
    /\ Ran("memo") <=> memo.type # "unbound"
    /\ DOMAIN outputs # {} => (Ran("memo") /\ Ran("aggregate"))
    /\ Ran("save analysis") <=> AnalysisFile \in DOMAIN outputs
    /\ pc = "exited" =>
         /\ trace # Pipeline
         /\ \A i \in DOMAIN trace : RankOfStep(trace[i]) <= RankOfStep(escaped.step)
         /\ escaped.step \in {"collect", "analyze", "memo"} => outputs = <<>>

\* C15 happens: a run went through every step of the pipeline and saved
\* both outputs.
C15_Witness ==
    /\ pc = "done"
    /\ trace = Pipeline
    /\ response.status = "ok"
    /\ DOMAIN outputs = {AnalysisFile, MemoFile}

=============================================================================
